---- MODULE Spec2Model ----
(***************************************************************************)
(* Response aggregates of the carbonapi zipper (package types): the tag,   *)
(* info, find and fetch aggregates, their Merge methods and the per-series *)
(* reconciler MergeFetchResponses.                                         *)
(*                                                                         *)
(* Go values are modelled as follows.  A pointer or a slice is a record    *)
(* with an isNil field (a nil slice has no items, and append to it gives a *)
(* non-nil slice).  A Go string that is used only for equality is a TLA+   *)
(* string; the find names and paths, which the code concatenates into a    *)
(* key, are sequences of characters.  A float64 sample is an integer, with *)
(* NaN a distinguished value.  A Go error value is a string, NoError for   *)
(* the nil error.                                                          *)
(***************************************************************************)
EXTENDS Integers, Sequences, FiniteSets, TLC

VARIABLES
    kind,    \* which aggregate this reduction folds: "tag", "info", "find", "fetch"
    pc,      \* position of the reduction: "idle", "returned"
    first,   \* the running aggregate (the receiver of Merge)
    second,  \* the partial response handed to Merge (as the call left it)
    first0,  \* the receiver as it was when the last call started
    second0, \* the partial response as it was handed to the last call
    ret,     \* the value the last Merge call returned
    errs,    \* fetch: the errors MergeFetchResponses returned to the last Merge call
    m1, m2,  \* reconciler: the two records of a direct MergeFetchResponses call
    a, b,    \* reconciler: the two records as they were before the call
    err,     \* reconciler: the Go error MergeFetchResponses computed
    mret,    \* reconciler: the aggregate MergeFetchResponses returned
    A, B, C, \* associativity: three partial responses
    left,    \* associativity: the fresh aggregate after merging A, B, C in turn
    right,   \* associativity: B after merging C, then A after merging that
    panicked \* a Merge call dereferenced a nil pointer

vars == <<kind, pc, first, second, first0, second0, ret, errs,
          m1, m2, a, b, err, mret, A, B, C, left, right, panicked>>

\* ------------------------------------------------------------------ bounds

\* Longest tag list and longest metric-entry list of a partial response.
MaxLen == 2
\* Most match entries of one metric-name entry of a partial find response.
MaxMatches == 1
\* Most series-records of a partial fetch response.
MaxSeries == 2
\* Longest value sequence of a series-record handed to the reconciler.
MaxValues == 3
\* Most errors an aggregate collects before the reduction stops taking more.
MaxErrors == 1
\* Largest statistics counter before the reduction stops taking more.
MaxStats == 1

SeqUpTo(S, n) == UNION {[1..k -> S] : k \in 0..n}
Range(s) == {s[i] : i \in 1..Len(s)}
Max(x, y) == IF x >= y THEN x ELSE y
None == "none"

\* ------------------------------------------------------ errors.Errors, Stats

NoError == "nil"
ErrResponseStartTimeMismatch == "ErrResponseStartTimeMismatch"

NilErrors == [isNil |-> TRUE, HaveFatalErrors |-> FALSE, Errors |-> <<>>]
\* new(errors.Errors)
NewErrors == [isNil |-> FALSE, HaveFatalErrors |-> FALSE, Errors |-> <<>>]

\* (e *Errors) Merge(e2): appends e2's errors, ORs the fatal flags.
ErrorsMerge(e, e2) ==
    IF e2.isNil THEN e
    ELSE [e EXCEPT !.HaveFatalErrors = @ \/ e2.HaveFatalErrors,
                   !.Errors = @ \o e2.Errors]

\* errors.FromErr: an empty aggregate for the nil error, else a one-element
\* aggregate carrying the fatal condition.
FromErr(e) ==
    IF e = NoError THEN NewErrors
    ELSE [isNil |-> FALSE, HaveFatalErrors |-> TRUE, Errors |-> <<e>>]

NilStats == [isNil |-> TRUE, n |-> 0]
NewStats == [isNil |-> FALSE, n |-> 0]
\* (s *Stats) Merge(s2): additive counters.
StatsMerge(s, s2) == [s EXCEPT !.n = @ + s2.n]

\* What a shard's partial response carries beside its body.
ErrChoices ==
    { NilErrors, NewErrors,
      [isNil |-> FALSE, HaveFatalErrors |-> FALSE, Errors |-> <<"timeout">>],
      [isNil |-> FALSE, HaveFatalErrors |-> TRUE, Errors |-> <<"unreachable">>] }
StatsChoices == { NilStats, [isNil |-> FALSE, n |-> 1] }

\* ------------------------------------------------------------ tag aggregate

NilSlice == [isNil |-> TRUE, items |-> <<>>]
Slice(s) == [isNil |-> FALSE, items |-> s]

TagNames == {"a", "b", "c"}

NewServerTagResponse ==
    [Server |-> "", Response |-> Slice(<<>>), Err |-> NewErrors]

\* The append loop of ServerTagResponse.Merge: firstMap is built once, before
\* the loop, and is not updated by it.
RECURSIVE TagAppendLoop(_, _, _)
TagAppendLoop(resp, firstMap, vs) ==
    IF vs = <<>> THEN resp
    ELSE TagAppendLoop(IF Head(vs) \in firstMap THEN resp ELSE Append(resp, Head(vs)),
                       firstMap, Tail(vs))

\* ServerTagResponse.Merge: the receiver after the call and the returned value.
ServerTagResponseMerge(f, s) ==
    LET e1 == IF f.Err.isNil THEN NewErrors ELSE f.Err
        e2 == ErrorsMerge(e1, s.Err)
        items == TagAppendLoop(f.Response.items, Range(f.Response.items), s.Response.items)
    IN  IF s.Response.isNil
        THEN [first |-> [f EXCEPT !.Err = e2], ret |-> e2, panic |-> FALSE]
        ELSE [first |-> [f EXCEPT !.Err = e2,
                                  !.Response = [isNil |-> f.Response.isNil /\ items = <<>>,
                                                items |-> items]],
              ret |-> NilErrors, panic |-> FALSE]

TagPartials ==
    [Server : {"s1"},
     Response : {NilSlice} \cup {Slice(s) : s \in SeqUpTo(TagNames, MaxLen)},
     Err : ErrChoices]

\* ----------------------------------------------------------- info aggregate

InfoNames == {"m1", "m2"}
InfoMeta == {"X", "Y"}
InfoMaps == UNION {[D -> InfoMeta] : D \in SUBSET InfoNames}
EmptyMap == [x \in {} |-> "X"]

NilInfo == [isNil |-> TRUE, Info |-> EmptyMap]

NewServerInfoResponse ==
    [Server |-> "", Response |-> [isNil |-> FALSE, Info |-> EmptyMap],
     Stats |-> NewStats, Err |-> NewErrors]

\* ServerInfoResponse.Merge.  Writing a key through a nil receiver body, or
\* merging statistics into a nil Stats, dereferences nil.
ServerInfoResponseMerge(f, s) ==
    LET st == IF s.Stats.isNil THEN f.Stats ELSE StatsMerge(f.Stats, s.Stats)
        e1 == IF f.Err.isNil THEN NewErrors ELSE f.Err
        e2 == ErrorsMerge(e1, s.Err)
        g  == [f EXCEPT !.Stats = st, !.Err = e2]
        info == [k \in DOMAIN f.Response.Info \cup DOMAIN s.Response.Info |->
                    IF k \in DOMAIN s.Response.Info THEN s.Response.Info[k]
                    ELSE f.Response.Info[k]]
    IN  IF ~s.Stats.isNil /\ f.Stats.isNil
        THEN [first |-> f, ret |-> NilErrors, panic |-> TRUE]
        ELSE IF s.Response.isNil
        THEN [first |-> g, ret |-> e2, panic |-> FALSE]
        ELSE IF f.Response.isNil /\ DOMAIN s.Response.Info # {}
        THEN [first |-> g, ret |-> NilErrors, panic |-> TRUE]
        ELSE IF f.Response.isNil
        THEN [first |-> g, ret |-> NilErrors, panic |-> FALSE]
        ELSE [first |-> [g EXCEPT !.Response.Info = info],
              ret |-> NilErrors, panic |-> FALSE]

InfoPartials ==
    [Server : {"s1"},
     Response : {NilInfo} \cup {[isNil |-> FALSE, Info |-> f] : f \in InfoMaps},
     Stats : StatsChoices,
     Err : ErrChoices]

\* ----------------------------------------------------------- find aggregate

\* Names and paths are strings the code concatenates: sequences of characters.
FindNames == { <<"a">>, <<"a", ".", "b">> }
FindPaths == { <<"c">>, <<"b", ".", "c">> }

\* m.Name + "." + mm.Path
MatchKey(name, path) == name \o <<".">> \o path

NilGlob == [isNil |-> TRUE, Metrics |-> <<>>]

NewServerFindResponse ==
    [Server |-> "", Response |-> [isNil |-> FALSE, Metrics |-> <<>>],
     Stats |-> NewStats, Err |-> NewErrors]

\* seenMetrics[name] after the indexing loop: the last position holding the
\* name, 0 when the name is absent.
SeenMetrics(metrics, name) ==
    LET I == {i \in 1..Len(metrics) : metrics[i].Name = name}
    IN  IF I = {} THEN 0 ELSE CHOOSE i \in I : \A j \in I : j <= i

\* seenMatches after the indexing loop.
SeenMatches(metrics) ==
    UNION { {MatchKey(metrics[i].Name, metrics[i].Matches[j].Path) :
                j \in 1..Len(metrics[i].Matches)} : i \in 1..Len(metrics) }

\* The inner loop over m.Matches for a name found at position i.
RECURSIVE FindMatchLoop(_, _, _)
FindMatchLoop(st, i, mms) ==
    IF mms = <<>> THEN st
    ELSE LET mm == Head(mms)
             key == MatchKey(st.metrics[i].Name, mm.Path)
         IN  FindMatchLoop(
                 IF key \in st.seen THEN st
                 ELSE [metrics |-> [st.metrics EXCEPT ![i].Matches = Append(@, mm)],
                       seen |-> st.seen \cup {key}],
                 i, Tail(mms))

\* The loop over second.Response.Metrics; index is the receiver's metric list
\* as seenMetrics saw it, before the loop.
RECURSIVE FindMetricLoop(_, _, _)
FindMetricLoop(st, index, ms) ==
    IF ms = <<>> THEN st
    ELSE LET m == Head(ms)
             i == SeenMetrics(index, m.Name)
         IN  FindMetricLoop(
                 IF i = 0 THEN [st EXCEPT !.metrics = Append(@, m)]
                 ELSE FindMatchLoop(st, i, m.Matches),
                 index, Tail(ms))

\* ServerFindResponse.Merge.
ServerFindResponseMerge(f, s) ==
    LET st == IF s.Stats.isNil THEN f.Stats ELSE StatsMerge(f.Stats, s.Stats)
        e1 == IF f.Err.isNil THEN NewErrors ELSE f.Err
        e2 == ErrorsMerge(e1, s.Err)
        g  == [f EXCEPT !.Stats = st, !.Err = e2]
        out == FindMetricLoop([metrics |-> f.Response.Metrics,
                               seen |-> SeenMatches(f.Response.Metrics)],
                              f.Response.Metrics, s.Response.Metrics)
    IN  IF ~s.Stats.isNil /\ f.Stats.isNil
        THEN [first |-> f, ret |-> NilErrors, panic |-> TRUE]
        ELSE IF s.Response.isNil
        THEN [first |-> g, ret |-> e2, panic |-> FALSE]
        ELSE IF f.Response.isNil
        THEN [first |-> g, ret |-> NilErrors, panic |-> TRUE]
        ELSE [first |-> [g EXCEPT !.Response.Metrics = out.metrics],
              ret |-> NilErrors, panic |-> FALSE]

FindMatches == {[Path |-> p] : p \in FindPaths}
FindEntries == [Name : FindNames, Matches : SeqUpTo(FindMatches, MaxMatches)]
\* A partial find response, with the statistics and errors a shard reports
\* together: nothing, statistics alone, or statistics with one error.
FindPartials ==
    { [Server |-> "s1", Response |-> r, Stats |-> se[1], Err |-> se[2]] :
        r \in {NilGlob} \cup {[isNil |-> FALSE, Metrics |-> ms] :
                                ms \in SeqUpTo(FindEntries, MaxLen)},
        se \in {<<NilStats, NilErrors>>} \cup
               {<<[isNil |-> FALSE, n |-> 1], e>> : e \in ErrChoices \ {NilErrors}} }

\* ---------------------------------------------------------- fetch aggregate

\* math.NaN(), the missing sample.
NaN == -1
IsNaN(v) == v = NaN

\* coordinates(r)
coordinates(r) ==
    [name |-> r.Name, from |-> r.RequestStartTime, until |-> r.RequestStopTime]

\* swapFetchResponses: the pair after the swap.
swapFetchResponses(x, y) ==
    << [x EXCEPT !.Name = y.Name, !.StartTime = y.StartTime, !.StepTime = y.StepTime,
                 !.ConsolidationFunc = y.ConsolidationFunc,
                 !.XFilesFactor = y.XFilesFactor, !.Values = y.Values,
                 !.AppliedFunctions = y.AppliedFunctions, !.StopTime = y.StopTime],
       [y EXCEPT !.Name = x.Name, !.StartTime = x.StartTime, !.StepTime = x.StepTime,
                 !.ConsolidationFunc = x.ConsolidationFunc,
                 !.XFilesFactor = x.XFilesFactor, !.Values = x.Values,
                 !.AppliedFunctions = x.AppliedFunctions, !.StopTime = x.StopTime] >>

\* mergeFetchResponsesWithEqualStepTimes with the IsNaN test of the fill loop
\* left out: the shorter record's samples overwrite the base's.
EqualStepTimesOverwriting(x, y) ==
    IF x.StartTime # y.StartTime
    THEN [m1 |-> x, m2 |-> y, err |-> ErrResponseStartTimeMismatch]
    ELSE LET p == IF Len(x.Values) < Len(y.Values) THEN swapFetchResponses(x, y)
                  ELSE <<x, y>>
             vals == [i \in 1..Len(p[1].Values) |->
                         IF i <= Len(p[2].Values)
                         THEN p[2].Values[i] ELSE p[1].Values[i]]
         IN  [m1 |-> [p[1] EXCEPT !.Values = vals], m2 |-> p[2], err |-> NoError]

\* mergeFetchResponsesWithEqualStepTimes comparing the requested start times
\* where the code compares the data windows' start times.
EqualStepTimesRequestStart(x, y) ==
    IF x.RequestStartTime # y.RequestStartTime
    THEN [m1 |-> x, m2 |-> y, err |-> ErrResponseStartTimeMismatch]
    ELSE LET p == IF Len(x.Values) < Len(y.Values) THEN swapFetchResponses(x, y)
                  ELSE <<x, y>>
             vals == [i \in 1..Len(p[1].Values) |->
                         IF i <= Len(p[2].Values) /\ IsNaN(p[1].Values[i])
                         THEN p[2].Values[i] ELSE p[1].Values[i]]
         IN  [m1 |-> [p[1] EXCEPT !.Values = vals], m2 |-> p[2], err |-> NoError]

\* mergeFetchResponsesWithEqualStepTimes: both records after the call, and
\* the error.
mergeFetchResponsesWithEqualStepTimes(x, y) ==
    IF x.StartTime # y.StartTime
    THEN [m1 |-> x, m2 |-> y, err |-> ErrResponseStartTimeMismatch]
    ELSE LET p == IF Len(x.Values) < Len(y.Values) THEN swapFetchResponses(x, y)
                  ELSE <<x, y>>
             vals == [i \in 1..Len(p[1].Values) |->
                         IF i <= Len(p[2].Values) /\ IsNaN(p[1].Values[i])
                         THEN p[2].Values[i] ELSE p[1].Values[i]]
         IN  [m1 |-> [p[1] EXCEPT !.Values = vals], m2 |-> p[2], err |-> NoError]

\* mergeFetchResponsesWithUnequalStepTimes with the comparison turned round:
\* the coarser record becomes the base.
UnequalStepTimesKeepCoarser(x, y) ==
    LET p == IF x.StepTime < y.StepTime THEN swapFetchResponses(x, y) ELSE <<x, y>>
    IN  [m1 |-> p[1], m2 |-> p[2], err |-> NoError]

\* mergeFetchResponsesWithUnequalStepTimes (the warning it logs is not state).
mergeFetchResponsesWithUnequalStepTimes(x, y) ==
    LET p == IF x.StepTime > y.StepTime THEN swapFetchResponses(x, y) ELSE <<x, y>>
    IN  [m1 |-> p[1], m2 |-> p[2], err |-> NoError]

\* MergeFetchResponses: both records after the call, the error it computed and
\* the aggregate it returns.
MergeFetchResponses(x, y) ==
    LET r == IF x.RequestStartTime # y.RequestStartTime
             THEN [m1 |-> x, m2 |-> y, err |-> ErrResponseStartTimeMismatch]
             ELSE IF x.StepTime = y.StepTime
             THEN mergeFetchResponsesWithEqualStepTimes(x, y)
             ELSE mergeFetchResponsesWithUnequalStepTimes(x, y)
    IN  [m1 |-> r.m1, m2 |-> r.m2, err |-> r.err, ret |-> FromErr(r.err)]

\* metrics[coordinates(r)] after the indexing loop: the last position holding
\* the key, 0 when the key is absent.
MetricsIndex(metrics, c) ==
    LET I == {i \in 1..Len(metrics) : coordinates(metrics[i]) = c}
    IN  IF I = {} THEN 0 ELSE CHOOSE i \in I : \A j \in I : j <= i

\* The loop over second.Response.Metrics; index is the receiver's series list
\* as the map saw it, before the loop.  errs collects what MergeFetchResponses
\* returned for the pairs it refused; the loop drops it.
RECURSIVE FetchLoop(_, _, _)
FetchLoop(st, index, i) ==
    IF i > Len(st.sm) THEN st
    ELSE LET j == MetricsIndex(index, coordinates(st.sm[i]))
             r == MergeFetchResponses(st.fm[j], st.sm[i])
         IN  FetchLoop(
                 IF j = 0 THEN [st EXCEPT !.fm = Append(@, st.sm[i])]
                 ELSE [fm |-> [st.fm EXCEPT ![j] = r.m1],
                       sm |-> [st.sm EXCEPT ![i] = r.m2],
                       errs |-> IF r.err = NoError THEN st.errs
                                ELSE Append(st.errs, r.err)],
                 index, i + 1)

NilFetch == [isNil |-> TRUE, Metrics |-> <<>>]

NewServerFetchResponse ==
    [Server |-> "", Response |-> [isNil |-> FALSE, Metrics |-> <<>>],
     Stats |-> NewStats, Err |-> NewErrors]

\* ServerFetchResponse.Merge without the return on HaveFatalErrors.
FetchMergeIgnoringFatal(f, s) ==
    LET srv == IF f.Server = "" /\ s.Server # "" THEN s.Server ELSE f.Server
        st == IF s.Stats.isNil THEN f.Stats ELSE StatsMerge(f.Stats, s.Stats)
        e1 == IF f.Err.isNil THEN NewErrors ELSE f.Err
        e2 == ErrorsMerge(e1, s.Err)
        g  == [f EXCEPT !.Server = srv, !.Stats = st, !.Err = e2]
        out == FetchLoop([fm |-> f.Response.Metrics, sm |-> s.Response.Metrics,
                          errs |-> <<>>],
                         f.Response.Metrics, 1)
    IN  IF s.Response.isNil
        THEN [first |-> g, second |-> s, errs |-> <<>>, panic |-> FALSE]
        ELSE [first |-> [g EXCEPT !.Response.Metrics = out.fm],
              second |-> [s EXCEPT !.Response.Metrics = out.sm],
              errs |-> out.errs, panic |-> FALSE]

\* ServerFetchResponse.Merge: the receiver and the argument after the call.
ServerFetchResponseMerge(f, s) ==
    LET srv == IF f.Server = "" /\ s.Server # "" THEN s.Server ELSE f.Server
        st == IF s.Stats.isNil THEN f.Stats ELSE StatsMerge(f.Stats, s.Stats)
        e1 == IF f.Err.isNil THEN NewErrors ELSE f.Err
        e2 == ErrorsMerge(e1, s.Err)
        g  == [f EXCEPT !.Server = srv, !.Stats = st, !.Err = e2]
        out == FetchLoop([fm |-> f.Response.Metrics, sm |-> s.Response.Metrics,
                          errs |-> <<>>],
                         f.Response.Metrics, 1)
    IN  IF ~s.Stats.isNil /\ f.Stats.isNil
        THEN [first |-> f, second |-> s, errs |-> <<>>, panic |-> TRUE]
        ELSE IF e2.HaveFatalErrors \/ s.Response.isNil
        THEN [first |-> g, second |-> s, errs |-> <<>>, panic |-> FALSE]
        ELSE IF f.Response.isNil
        THEN [first |-> g, second |-> s, errs |-> <<>>, panic |-> TRUE]
        ELSE [first |-> [g EXCEPT !.Response.Metrics = out.fm],
              second |-> [s EXCEPT !.Response.Metrics = out.sm],
              errs |-> out.errs, panic |-> FALSE]

\* A series-record of the fetch reduction.  The requested window is the
\* query's; the stop time follows from start, step and the number of samples;
\* a replica's retention fixes its step together with its consolidation.
Rec(name, start, step, vals) ==
    [Name |-> name, RequestStartTime |-> 0, RequestStopTime |-> 120,
     StartTime |-> start, StopTime |-> start + step * Len(vals), StepTime |-> step,
     ConsolidationFunc |-> IF step = 10 THEN "avg" ELSE "max",
     XFilesFactor |-> IF step = 10 THEN 0 ELSE 1,
     Values |-> vals,
     AppliedFunctions |-> IF step = 10 THEN <<>> ELSE <<"summarize">>]

FetchRecords ==
    { Rec("m1", 0, 10, <<1, NaN>>), Rec("m1", 0, 10, <<NaN, 2>>),
      Rec("m1", 10, 10, <<3>>), Rec("m2", 0, 60, <<4>>) }

\* A partial fetch response, with the statistics and errors a shard reports
\* together: nothing, statistics alone, or statistics with one error.
FetchPartials ==
    { [Server |-> "s1", Response |-> r, Stats |-> se[1], Err |-> se[2]] :
        r \in {NilFetch} \cup {[isNil |-> FALSE, Metrics |-> ms] :
                                 ms \in SeqUpTo(FetchRecords, MaxSeries)},
        se \in {<<NilStats, NilErrors>>} \cup
               {<<[isNil |-> FALSE, n |-> 1], e>> : e \in ErrChoices \ {NilErrors}} }

\* ------------------------------------------------------------ the reduction

Partials ==
    CASE kind = "tag" -> TagPartials
      [] kind = "info" -> InfoPartials
      [] kind = "find" -> FindPartials
      [] kind = "fetch" -> FetchPartials

\* The reduction takes a partial response while the error list and the
\* statistics counter stay within the bounds.
Fits(f, s) ==
    /\ Len(f.Err.Errors) + Len(s.Err.Errors) <= MaxErrors
    /\ IF kind = "tag" THEN TRUE ELSE f.Stats.n + s.Stats.n <= MaxStats

\* Each Merge action is one call: a shard's partial response arrives and the
\* reduction hands it to the aggregate's Merge.
TagMerge ==
    /\ pc = "idle" /\ kind = "tag"
    /\ \E s \in Partials :
        /\ Fits(first, s)
        /\ LET r == ServerTagResponseMerge(first, s)
           IN  first' = r.first /\ ret' = r.ret /\ panicked' = r.panic
        /\ second' = s /\ second0' = s
    /\ first0' = first /\ pc' = "returned"
    /\ UNCHANGED <<kind, errs, m1, m2, a, b, err, mret, A, B, C, left, right>>

InfoMerge ==
    /\ pc = "idle" /\ kind = "info"
    /\ \E s \in Partials :
        /\ Fits(first, s)
        /\ LET r == ServerInfoResponseMerge(first, s)
           IN  first' = r.first /\ ret' = r.ret /\ panicked' = r.panic
        /\ second' = s /\ second0' = s
    /\ first0' = first /\ pc' = "returned"
    /\ UNCHANGED <<kind, errs, m1, m2, a, b, err, mret, A, B, C, left, right>>

FindMerge ==
    /\ pc = "idle" /\ kind = "find"
    /\ \E s \in Partials :
        /\ Fits(first, s)
        /\ LET r == ServerFindResponseMerge(first, s)
           IN  first' = r.first /\ ret' = r.ret /\ panicked' = r.panic
        /\ second' = s /\ second0' = s
    /\ first0' = first /\ pc' = "returned"
    /\ UNCHANGED <<kind, errs, m1, m2, a, b, err, mret, A, B, C, left, right>>

FetchMerge ==
    /\ pc = "idle" /\ kind = "fetch"
    /\ \E s \in Partials :
        /\ Fits(first, s)
        /\ LET r == ServerFetchResponseMerge(first, s)
           IN  first' = r.first /\ second' = r.second /\ errs' = r.errs
               /\ panicked' = r.panic
        /\ second0' = s
    /\ first0' = first /\ pc' = "returned"
    /\ UNCHANGED <<kind, ret, m1, m2, a, b, err, mret, A, B, C, left, right>>

\* The caller is done with the partial response and waits for the next one.
Reduce ==
    /\ pc = "returned" /\ ~panicked
    /\ pc' = "idle"
    /\ second' = None /\ first0' = None /\ second0' = None
    /\ ret' = None /\ errs' = None
    /\ UNCHANGED <<kind, first, m1, m2, a, b, err, mret, A, B, C, left, right, panicked>>

Idle ==
    /\ pc = "idle" /\ second = None /\ first0 = None /\ second0 = None
    /\ ret = None /\ errs = None /\ panicked = FALSE
    /\ m1 = None /\ m2 = None /\ a = None /\ b = None /\ err = None /\ mret = None
    /\ A = None /\ B = None /\ C = None /\ left = None /\ right = None

\* The tag, info and find reductions, each from its constructor's aggregate.
Init ==
    /\ kind \in {"tag", "info", "find"}
    /\ first = CASE kind = "tag" -> NewServerTagResponse
                 [] kind = "info" -> NewServerInfoResponse
                 [] kind = "find" -> NewServerFindResponse
    /\ Idle

Next == TagMerge \/ InfoMerge \/ FindMerge \/ Reduce

Spec == Init /\ [][Next]_vars

\* The fetch reduction.
InitFetch ==
    /\ kind = "fetch"
    /\ first = NewServerFetchResponse
    /\ Idle

NextFetch == FetchMerge \/ Reduce

SpecFetch == InitFetch /\ [][NextFetch]_vars

\* ---------------------------------------------------- the reconciler, alone

\* Records handed to MergeFetchResponses directly.  Only differences between
\* the two records matter to it, so the first record's request start and data
\* start are fixed and the second's vary; the two carry different metadata and
\* different numbers, which tells their fields apart in the result.
ReconcileFirst ==
    { [Name |-> "m1", RequestStartTime |-> 0, RequestStopTime |-> 120,
       StartTime |-> 0, StopTime |-> 120, StepTime |-> step,
       ConsolidationFunc |-> "avg", XFilesFactor |-> 0,
       Values |-> vals, AppliedFunctions |-> <<>>] :
        step \in {10, 60}, vals \in SeqUpTo({NaN, 1, 3}, MaxValues) }

ReconcileSecond ==
    { [Name |-> "m1", RequestStartTime |-> rs, RequestStopTime |-> 120,
       StartTime |-> start, StopTime |-> 130, StepTime |-> step,
       ConsolidationFunc |-> "max", XFilesFactor |-> 1,
       Values |-> vals, AppliedFunctions |-> <<"summarize">>] :
        rs \in {0, 30}, start \in {0, 10}, step \in {10, 60},
        vals \in SeqUpTo({NaN, 2}, MaxValues) }

InitReconcile ==
    /\ kind = "reconcile" /\ pc = "called"
    /\ a \in ReconcileFirst /\ b \in ReconcileSecond
    /\ m1 = a /\ m2 = b
    /\ err = None /\ mret = None
    /\ first = None /\ second = None /\ first0 = None /\ second0 = None
    /\ ret = None /\ errs = None /\ panicked = FALSE
    /\ A = None /\ B = None /\ C = None /\ left = None /\ right = None

\* One call MergeFetchResponses(&m1, &m2, uuid).
Reconcile ==
    /\ pc = "called" /\ kind = "reconcile"
    /\ LET r == MergeFetchResponses(m1, m2)
       IN  m1' = r.m1 /\ m2' = r.m2 /\ err' = r.err /\ mret' = r.ret
    /\ pc' = "returned"
    /\ UNCHANGED <<kind, first, second, first0, second0, ret, errs, a, b,
                   A, B, C, left, right, panicked>>

SpecReconcile == InitReconcile /\ [][Reconcile]_vars

\* ------------------------------------------------- two orders of three merges

\* Longest tag list and metric-entry list of the three partial responses.
MaxAssocLen == 1

AssocPartials(k) ==
    CASE k = "tag" ->
           [Server : {"s1"}, Err : {NewErrors},
            Response : {NilSlice} \cup {Slice(s) : s \in SeqUpTo(TagNames, MaxAssocLen)}]
      [] k = "info" ->
           [Server : {"s1"}, Err : {NewErrors}, Stats : {NewStats},
            Response : {NilInfo} \cup {[isNil |-> FALSE, Info |-> f] : f \in InfoMaps}]
      [] k = "find" ->
           [Server : {"s1"}, Err : {NewErrors}, Stats : {NewStats},
            Response : {NilGlob} \cup {[isNil |-> FALSE, Metrics |-> ms] :
                                         ms \in SeqUpTo(FindEntries, MaxAssocLen)}]

NewAggregate(k) ==
    CASE k = "tag" -> NewServerTagResponse
      [] k = "info" -> NewServerInfoResponse
      [] k = "find" -> NewServerFindResponse

MergeOf(k, f, s) ==
    CASE k = "tag" -> ServerTagResponseMerge(f, s)
      [] k = "info" -> ServerInfoResponseMerge(f, s)
      [] k = "find" -> ServerFindResponseMerge(f, s)

InitAssoc ==
    /\ kind \in {"tag", "info", "find"}
    /\ A \in AssocPartials(kind) /\ B \in AssocPartials(kind) /\ C \in AssocPartials(kind)
    /\ left = NewAggregate(kind) /\ right = None
    /\ pc = "foldA" /\ panicked = FALSE
    /\ first = None /\ second = None /\ first0 = None /\ second0 = None
    /\ ret = None /\ errs = None
    /\ m1 = None /\ m2 = None /\ a = None /\ b = None /\ err = None /\ mret = None

\* E.Merge(A), E.Merge(B), E.Merge(C) on the fresh aggregate E.
FoldLeft ==
    /\ pc \in {"foldA", "foldB", "foldC"}
    /\ LET r == MergeOf(kind, left, CASE pc = "foldA" -> A [] pc = "foldB" -> B
                                      [] pc = "foldC" -> C)
       IN  left' = r.first /\ panicked' = r.panic
           /\ pc' = IF r.panic THEN "panic"
                    ELSE CASE pc = "foldA" -> "foldB" [] pc = "foldB" -> "foldC"
                           [] pc = "foldC" -> "inner"
    /\ UNCHANGED <<kind, first, second, first0, second0, ret, errs,
                   m1, m2, a, b, err, mret, A, B, C, right>>

\* B.Merge(C)
MergeInner ==
    /\ pc = "inner"
    /\ LET r == MergeOf(kind, B, C)
       IN  right' = r.first /\ panicked' = r.panic
           /\ pc' = IF r.panic THEN "panic" ELSE "outer"
    /\ UNCHANGED <<kind, first, second, first0, second0, ret, errs,
                   m1, m2, a, b, err, mret, A, B, C, left>>

\* A.Merge(B), with B as B.Merge(C) left it.
MergeOuter ==
    /\ pc = "outer"
    /\ LET r == MergeOf(kind, A, right)
       IN  right' = r.first /\ panicked' = r.panic
           /\ pc' = IF r.panic THEN "panic" ELSE "done"
    /\ UNCHANGED <<kind, first, second, first0, second0, ret, errs,
                   m1, m2, a, b, err, mret, A, B, C, left>>

NextAssoc == FoldLeft \/ MergeInner \/ MergeOuter

SpecAssoc == InitAssoc /\ [][NextAssoc]_vars

\* ------------------------------------------------------------------ claims

NoDuplicates(s) == \A i, j \in 1..Len(s) : i # j => s[i] # s[j]

\* The distinct elements of s that are not in S, in the order s first
\* introduces them.
RECURSIVE FirstSeen(_, _)
FirstSeen(s, S) ==
    IF s = <<>> THEN <<>>
    ELSE IF Head(s) \in S THEN FirstSeen(Tail(s), S)
    ELSE <<Head(s)>> \o FirstSeen(Tail(s), S \cup {Head(s)})

\* The (metric name, match path) pairs of a metric list.
MatchPairs(metrics) ==
    UNION { {<<metrics[i].Name, metrics[i].Matches[j].Path>> :
                j \in 1..Len(metrics[i].Matches)} : i \in 1..Len(metrics) }

\* C1: in the fetch reduction, no two series-records of the aggregate share
\* the key (Name, RequestStartTime, RequestStopTime).
C1_UniqueSeriesKeys ==
    kind = "fetch" =>
        \A i, j \in 1..Len(first.Response.Metrics) :
            i # j => coordinates(first.Response.Metrics[i])
                        # coordinates(first.Response.Metrics[j])

\* C2: after ServerTagResponse.Merge on a receiver list A without duplicates
\* and any argument list B, the receiver holds A followed by the names B adds,
\* each once, in the order B first introduces them.
C2_TagUnionFirstSeen ==
    (kind = "tag" /\ pc = "returned" /\ NoDuplicates(first0.Response.items)) =>
        first.Response.items =
            first0.Response.items
                \o FirstSeen(second0.Response.items, Range(first0.Response.items))

\* C3: in the find reduction the metric-name entries are unique by name, the
\* match entries of an entry are unique by path, and a match of the argument
\* is missing from the receiver after Merge only if its exact (name, path)
\* pair was there before.
C3_FindUniqueAndExact ==
    kind = "find" =>
        /\ NoDuplicates([i \in 1..Len(first.Response.Metrics) |->
                            first.Response.Metrics[i].Name])
        /\ \A i \in 1..Len(first.Response.Metrics) :
               NoDuplicates(first.Response.Metrics[i].Matches)
        /\ (pc = "returned" /\ ~second0.Response.isNil) =>
               MatchPairs(second0.Response.Metrics)
                   \subseteq MatchPairs(first.Response.Metrics)

\* C4: a ServerFetchResponse.Merge call after which the receiver's error
\* aggregate is fatal leaves the series-records as they were, and a receiver
\* that was fatal before a call is fatal after it.
C4_FatalLeavesSeries ==
    (kind = "fetch" /\ pc = "returned") =>
        /\ first.Err.HaveFatalErrors => first.Response = first0.Response
        /\ first0.Err.HaveFatalErrors => first.Err.HaveFatalErrors

\* C4 witness: a call on an aggregate that was fatal already, with an argument
\* that is not fatal itself and brings a series the aggregate does not hold.
C4_Witness ==
    /\ kind = "fetch" /\ pc = "returned"
    /\ first0.Err.HaveFatalErrors /\ ~second0.Err.HaveFatalErrors
    /\ \E i \in 1..Len(second0.Response.Metrics) :
           MetricsIndex(first0.Response.Metrics,
                        coordinates(second0.Response.Metrics[i])) = 0
    /\ first.Response = first0.Response

\* C5: when MergeFetchResponses signals the start-time mismatch for a pair
\* during ServerFetchResponse.Merge, the receiver's error aggregate is fatal
\* after the call and the pair is not combined (with the refused record the
\* argument's only one, the receiver's records are as they were).
C5_MismatchIsRecorded ==
    (kind = "fetch" /\ pc = "returned"
        /\ ErrResponseStartTimeMismatch \in Range(errs)) =>
        /\ first.Err.HaveFatalErrors
        /\ Len(second0.Response.Metrics) = 1 => first.Response = first0.Response

\* C6: for records a and b with equal requested start, equal data start and
\* equal step, MergeFetchResponses succeeds and leaves in a the longer value
\* sequence (a's own on equal lengths), with its numbers kept and its gaps
\* within the shorter sequence filled from the other record.
C6_GapFill ==
    (kind = "reconcile" /\ pc = "returned"
        /\ a.RequestStartTime = b.RequestStartTime
        /\ a.StartTime = b.StartTime /\ a.StepTime = b.StepTime) =>
        LET base  == IF Len(a.Values) >= Len(b.Values) THEN a.Values ELSE b.Values
            other == IF Len(a.Values) >= Len(b.Values) THEN b.Values ELSE a.Values
        IN  /\ err = NoError
            /\ Len(m1.Values) = Max(Len(a.Values), Len(b.Values))
            /\ \A i \in 1..Len(base) :
                   /\ ~IsNaN(base[i]) => m1.Values[i] = base[i]
                   /\ (IsNaN(base[i]) /\ i <= Len(other)) => m1.Values[i] = other[i]

\* C6 witness: [1, NaN, 3] merged with [NaN, 2, NaN] gives [1, 2, 3].
C6_Witness ==
    /\ kind = "reconcile" /\ pc = "returned"
    /\ a.RequestStartTime = b.RequestStartTime
    /\ a.StartTime = b.StartTime /\ a.StepTime = b.StepTime
    /\ a.Values = <<1, NaN, 3>> /\ b.Values = <<NaN, 2, NaN>>
    /\ m1.Values = <<1, 2, 3>>

\* C7: for records a and b with the same key and different step times, in
\* either order, the first record ends with the values, the start, stop and
\* step time, the consolidation function, the x-files-factor and the applied
\* functions of the record with the smaller step, and no error is produced.
C7_FinerStepWins ==
    (kind = "reconcile" /\ pc = "returned"
        /\ coordinates(a) = coordinates(b) /\ a.StepTime # b.StepTime) =>
        LET fine == IF a.StepTime < b.StepTime THEN a ELSE b
        IN  /\ m1.Values = fine.Values
            /\ m1.StartTime = fine.StartTime /\ m1.StopTime = fine.StopTime
            /\ m1.StepTime = fine.StepTime
            /\ m1.ConsolidationFunc = fine.ConsolidationFunc
            /\ m1.XFilesFactor = fine.XFilesFactor
            /\ m1.AppliedFunctions = fine.AppliedFunctions
            /\ err = NoError

\* C7 witness: the receiver is the coarser record and holds samples; it ends
\* with the finer record's samples and none of its own.
C7_Witness ==
    /\ kind = "reconcile" /\ pc = "returned"
    /\ coordinates(a) = coordinates(b)
    /\ a.StepTime = 60 /\ b.StepTime = 10
    /\ a.Values = <<1, NaN, 3>> /\ b.Values = <<2, NaN>>
    /\ m1.Values = <<2, NaN>> /\ m1.ConsolidationFunc = "max"

\* C8: every Merge of the tag, info and find aggregates returns the
\* receiver's merged error aggregate: the receiver's errors followed by the
\* argument's, the fatal flags ORed.
C8_MergeReturnsErrors ==
    (kind \in {"tag", "info", "find"} /\ pc = "returned") =>
        /\ first.Err = ErrorsMerge(first0.Err, second0.Err)
        /\ ret = first.Err

\* C9: merging A, B, C in turn into a fresh aggregate gives the same tag
\* names, the same (metric name, match path) pairs and the same name to
\* metadata mapping as merging C into B and then that into A.
C9_SameContentEitherOrder ==
    (kind \in {"tag", "info", "find"} /\ pc = "done") =>
        CASE kind = "tag" ->
               Range(left.Response.items) = Range(right.Response.items)
          [] kind = "info" -> left.Response.Info = right.Response.Info
          [] kind = "find" ->
               MatchPairs(left.Response.Metrics) = MatchPairs(right.Response.Metrics)

\* C10 as claimed: two records with equal requested start and equal step are
\* gap-filled successfully whatever their data windows' start times.
C10_OnlyRequestStartMatters ==
    (kind = "reconcile" /\ pc = "returned"
        /\ a.RequestStartTime = b.RequestStartTime /\ a.StepTime = b.StepTime) =>
        err = NoError

\* C10 as amended: with equal requested start and equal step, the mismatch
\* failure is raised exactly when the data windows' start times differ, and
\* then neither record is changed.
C10_DataStartDecides ==
    (kind = "reconcile" /\ pc = "returned"
        /\ a.RequestStartTime = b.RequestStartTime /\ a.StepTime = b.StepTime) =>
        /\ (err = ErrResponseStartTimeMismatch) <=> (a.StartTime # b.StartTime)
        /\ (err = NoError) <=> (a.StartTime = b.StartTime)
        /\ a.StartTime # b.StartTime => (m1 = a /\ m2 = b)

\* C10 witness: equal requested start and step, different data start, and a
\* gap the other record could have filled: the call fails.
C10_Witness ==
    /\ kind = "reconcile" /\ pc = "returned"
    /\ a.RequestStartTime = b.RequestStartTime /\ a.StepTime = b.StepTime
    /\ a.StartTime # b.StartTime
    /\ a.Values = <<NaN>> /\ b.Values = <<2>>
    /\ err = ErrResponseStartTimeMismatch /\ m1.Values = <<NaN>>

====
